---- MODULE Spec2Model ----
(***************************************************************************)
(* The chat front end of the Westeros legal assistant: the ChatInterface   *)
(* React component (messages, inputValue, isLoading, handleSendMessage)    *)
(* and the Next.js proxy route POST /api/query, which forwards a query to  *)
(* the FastAPI backend as GET /query?query=...                             *)
(*                                                                         *)
(* A JavaScript string is a sequence of one-character strings.  A          *)
(* JavaScript value is a record [t, s]: t is its type tag and s its        *)
(* payload (the characters of a string, the elements of an array).  A      *)
(* JSON text is a sequence of tokens [k, v].                               *)
(***************************************************************************)
EXTENDS Integers, Sequences, FiniteSets, TLC

\* Longest query string a direct caller POSTs to the route.
MaxLen == 2
\* Most queries the chat sends.
MaxSends == 2
\* Largest value of the millisecond clock Date.now().
MaxTime == 1

----------------------------------------------------------------------------
(* Strings *)

\* An unpaired UTF-16 surrogate code unit, e.g. "\uD800".
LoneSurrogate == "uD800"

Alphabet == {"a", " ", "&", "=", "#", "?", "%", "+", LoneSurrogate}

Strings(A, n) == UNION {[1..k -> A] : k \in 0..n}

RECURSIVE TrimStart(_)
TrimStart(s) == IF s # <<>> /\ Head(s) = " " THEN TrimStart(Tail(s)) ELSE s

RECURSIVE TrimEnd(_)
TrimEnd(s) ==
    IF s # <<>> /\ s[Len(s)] = " " THEN TrimEnd(SubSeq(s, 1, Len(s) - 1)) ELSE s

\* String.prototype.trim
Trim(s) == TrimEnd(TrimStart(s))

\* Index of the first element of s equal to x, or Len(s) + 1.
IndexOf(s, x) ==
    IF \E i \in 1..Len(s) : s[i] = x
    THEN CHOOSE i \in 1..Len(s) : s[i] = x /\ \A j \in 1..(i - 1) : s[j] # x
    ELSE Len(s) + 1

----------------------------------------------------------------------------
(* JavaScript values and JSON *)

JStr(s) == [t |-> "str", s |-> s]
JNull == [t |-> "null", s |-> <<>>]
JArr(a) == [t |-> "arr", s |-> a]
Undefined == [t |-> "undefined", s |-> <<>>]

EmptyObj == [f \in {} |-> Undefined]

\* obj.f: undefined when the property is absent.
Get(obj, f) == IF f \in DOMAIN obj THEN obj[f] ELSE Undefined

\* JSON tokens: punctuation, string literal, null literal.
P(c) == [k |-> "p", v |-> <<c>>]
S(s) == [k |-> "s", v |-> s]
N == [k |-> "null", v |-> <<>>]

\* The property names the texts of this system use, in the order written.
KeyOrder == <<"query", "response", "citations", "source", "text", "error", "detail">>

RECURSIVE StringifyObj(_)
RECURSIVE StringifyArr(_)
RECURSIVE StringifyMembers(_, _)

\* JSON.stringify of a value in property position: undefined is skipped.
StringifyValue(v) ==
    CASE v.t = "str" -> <<S(v.s)>>
      [] v.t = "null" -> <<N>>
      [] v.t = "arr" -> <<P("[")>> \o StringifyArr(v.s) \o <<P("]")>>

StringifyMembers(obj, i) ==
    IF i > Len(KeyOrder) THEN <<>>
    ELSE LET f == KeyOrder[i] IN
         (IF f \in DOMAIN obj /\ obj[f].t # "undefined"
          THEN <<S(<<f>>)>> \o StringifyValue(obj[f])
          ELSE <<>>) \o StringifyMembers(obj, i + 1)

StringifyObj(obj) == <<P("{")>> \o StringifyMembers(obj, 1) \o <<P("}")>>

StringifyArr(a) ==
    IF a = <<>> THEN <<>> ELSE StringifyObj(Head(a)) \o StringifyArr(Tail(a))

\* JSON.stringify of a parsed top-level value.
JsonStringify(p) == IF p.kind = "null" THEN <<N>> ELSE StringifyObj(p.obj)

Token == [k : {"p", "s", "null"}, v : Seq(STRING)]

RECURSIVE ParseMembers(_)

\* The elements of an array of flat objects.
ParseArr(a) ==
    LET elements[x \in Seq(Token)] ==
            IF x = <<>> THEN <<>>
            ELSE LET j == IndexOf(x, P("}")) IN
                 <<ParseMembers(SubSeq(x, 2, j - 1))>>
                 \o elements[SubSeq(x, j + 1, Len(x))]
    IN elements[a]

\* The members of an object, as a function from property names to values.
ParseMembers(m) ==
    LET members[x \in Seq(Token)] ==
            IF Len(x) < 2 THEN EmptyObj
            ELSE LET isArr == x[2] = P("[")
                     close == 2 + IndexOf(SubSeq(x, 3, Len(x)), P("]"))
                     val == IF isArr THEN JArr(ParseArr(SubSeq(x, 3, close - 1)))
                            ELSE IF x[2].k = "null" THEN JNull
                            ELSE JStr(x[2].v)
                 IN (x[1].v[1] :> val)
                    @@ members[SubSeq(x, (IF isArr THEN close ELSE 2) + 1, Len(x))]
    IN members[m]

\* JSON.parse: kind "error" when it throws SyntaxError.
JsonParse(t) ==
    IF t = <<N>> THEN [kind |-> "null", obj |-> EmptyObj]
    ELSE IF Len(t) >= 2 /\ t[1] = P("{") /\ t[Len(t)] = P("}")
         THEN [kind |-> "object", obj |-> ParseMembers(SubSeq(t, 2, Len(t) - 1))]
         ELSE [kind |-> "error", obj |-> EmptyObj]

----------------------------------------------------------------------------
(* URLs *)

Escapes ==
    [c \in {" ", "&", "=", "#", "?", "%", "+"} |->
        CASE c = " " -> <<"%", "2", "0">>
          [] c = "&" -> <<"%", "2", "6">>
          [] c = "=" -> <<"%", "3", "D">>
          [] c = "#" -> <<"%", "2", "3">>
          [] c = "?" -> <<"%", "3", "F">>
          [] c = "%" -> <<"%", "2", "5">>
          [] c = "+" -> <<"%", "2", "B">>]

\* encodeURIComponent throws URIError on an unpaired surrogate.
URIMalformed(s) == \E i \in 1..Len(s) : s[i] = LoneSurrogate

RECURSIVE encodeURIComponent(_)
encodeURIComponent(s) ==
    IF s = <<>> THEN <<>>
    ELSE (IF Head(s) \in DOMAIN Escapes THEN Escapes[Head(s)] ELSE <<Head(s)>>)
         \o encodeURIComponent(Tail(s))

\* `http://localhost:8000/query?query=${query}`
BackendUrlUnencoded(query) ==
    <<"http://localhost:8000", "/query", "?", "query", "=">> \o query

\* `http://localhost:8000/query?query=${encodeURIComponent(query)}`
BackendUrl(query) ==
    <<"http://localhost:8000", "/query", "?", "query", "=">> \o encodeURIComponent(query)

\* Decoding of a query-string value: %XX escapes, and + for a space.
PercentDecode(s) ==
    LET decode[x \in Seq(STRING)] ==
            IF x = <<>> THEN <<>>
            ELSE IF Head(x) = "%" /\ Len(x) >= 3
                    /\ \E c \in DOMAIN Escapes : Escapes[c] = SubSeq(x, 1, 3)
                 THEN <<CHOOSE c \in DOMAIN Escapes : Escapes[c] = SubSeq(x, 1, 3)>>
                      \o decode[SubSeq(x, 4, Len(x))]
                 ELSE <<IF Head(x) = "+" THEN " " ELSE Head(x)>> \o decode[Tail(x)]
    IN decode[s]

\* The URL without its fragment.
UrlNoFragment(url) == SubSeq(url, 1, IndexOf(url, "#") - 1)

\* The path of the URL: between the origin and the first "?".
UrlPath(url) ==
    LET u == UrlNoFragment(url) IN SubSeq(u, 2, IndexOf(u, "?") - 1)

\* The first parameter of the URL's query string, as <<name, decoded value>>.
UrlParam(url) ==
    LET u == UrlNoFragment(url)
        search == SubSeq(u, IndexOf(u, "?") + 1, Len(u))
        first == SubSeq(search, 1, IndexOf(search, "&") - 1)
        eq == IndexOf(first, "=")
    IN <<SubSeq(first, 1, eq - 1), PercentDecode(SubSeq(first, eq + 1, Len(first)))>>

----------------------------------------------------------------------------
(* State *)

VARIABLES
    messages,         \* useState<Message[]>([])
    inputValue,       \* useState('')
    isLoading,        \* useState(false)
    calls,            \* activations of handleSendMessage awaiting their fetch
    now,              \* Date.now()
    routePc,          \* position of the route handler POST
    request,          \* the NextRequest the route is handling
    backendFetches,   \* the fetches POST has issued for this request
    backendResponse,  \* what the backend fetch settled with
    routeResponse     \* the NextResponse POST returned

chatVars == <<messages, inputValue, isLoading, calls, now>>
routeVars == <<routePc, request, backendFetches, backendResponse, routeResponse>>
vars == <<messages, inputValue, isLoading, calls, now,
          routePc, request, backendFetches, backendResponse, routeResponse>>

NoRequest == [origin |-> "none", text |-> <<>>]
NoBackendResponse == [kind |-> "none", text |-> <<>>, status |-> 0]
NoResponse == [text |-> <<>>, status |-> 0]

Init ==
    /\ messages = <<>>
    /\ inputValue = <<>>
    /\ isLoading = FALSE
    /\ calls = <<>>
    /\ now = 0
    /\ routePc = "idle"
    /\ request = NoRequest
    /\ backendFetches = <<>>
    /\ backendResponse = NoBackendResponse
    /\ routeResponse = NoResponse

RouteIdle ==
    /\ routePc' = "idle"
    /\ request' = NoRequest
    /\ backendFetches' = <<>>
    /\ backendResponse' = NoBackendResponse
    /\ routeResponse' = NoResponse

----------------------------------------------------------------------------
(* The proxy route: POST /api/query *)

\* NextResponse.json({ response: data.response }, { status })
NextResponseJsonResponseOnly(p, status) ==
    [text |-> IF p.kind = "null" THEN <<N>>
              ELSE StringifyObj([f \in DOMAIN p.obj \ {"citations"} |-> p.obj[f]]),
     status |-> status]

\* NextResponse.json(body, { status })
NextResponseJson(p, status) == [text |-> JsonStringify(p), status |-> status]

ObjectOf(obj) == [kind |-> "object", obj |-> obj]

\* !query, had it been written query === undefined
FalsyUndefinedOnly(v) == v.t = "undefined"

\* !query
Falsy(v) == v.t \in {"undefined", "null"} \/ (v.t = "str" /\ v.s = <<>>)

\* The 400 of a missing query.
QueryRequired == NextResponseJson(ObjectOf([error |-> JStr(<<"Query is required">>)]), 400)

\* The catch block, with the error it caught forwarded to the caller.
CatchResponseForwarding(error) == NextResponseJson(ObjectOf([error |-> JStr(error)]), 500)

\* The catch block: the error is logged, the response is fixed.
CatchResponse(error) ==
    NextResponseJson(ObjectOf([error |-> JStr(<<"Failed to process query">>)]), 500)

\* Response.ok of the backend's response
BackendOk(status) == status >= 200 /\ status <= 299

\* The backend request of a query.
BackendRequest(query) == [method |-> "GET", url |-> BackendUrl(query)]

\* POST up to its await of the backend fetch.
POSTBegin ==
    /\ routePc = "received"
    /\ \E body \in {JsonParse(request.text)} :
       LET query == Get(body.obj, "query")
       IN IF body.kind = "error"
          THEN /\ routeResponse' = CatchResponse(<<"SyntaxError: Unexpected end of JSON input">>)
               /\ routePc' = "done"
               /\ UNCHANGED backendFetches
          ELSE IF body.kind = "null"
          THEN /\ routeResponse' = CatchResponse(<<"TypeError: Cannot destructure property 'query'">>)
               /\ routePc' = "done"
               /\ UNCHANGED backendFetches
          ELSE IF Falsy(query)
          THEN /\ routeResponse' = QueryRequired
               /\ routePc' = "done"
               /\ UNCHANGED backendFetches
          ELSE IF URIMalformed(query.s)
          THEN /\ routeResponse' = CatchResponse(<<"URIError: URI malformed">>)
               /\ routePc' = "done"
               /\ UNCHANGED backendFetches
          ELSE /\ backendFetches' = Append(backendFetches, BackendRequest(query.s))
               /\ routePc' = "awaitBackend"
               /\ UNCHANGED routeResponse
    /\ UNCHANGED <<request, backendResponse>>
    /\ UNCHANGED chatVars

\* POST from the settling of the backend fetch.
POSTFinish ==
    /\ routePc = "backendSettled"
    /\ IF backendResponse.kind = "neterr"
       THEN routeResponse' = CatchResponse(<<"TypeError: fetch failed">>)
       ELSE IF ~BackendOk(backendResponse.status)
       THEN routeResponse' = CatchResponse(<<"Backend responded with status: ",
                                             ToString(backendResponse.status)>>)
       ELSE \E data \in {JsonParse(backendResponse.text)} :
              routeResponse' = IF data.kind = "error"
                               THEN CatchResponse(<<"SyntaxError: Unexpected token">>)
                               ELSE NextResponseJson(data, 200)
    /\ routePc' = "done"
    /\ UNCHANGED <<request, backendFetches, backendResponse>>
    /\ UNCHANGED chatVars

----------------------------------------------------------------------------
(* The backend: GET /query *)

Citation1 ==
    [source |-> JStr(<<"Law 3.1.1 (Widows) - Maintenance of Widow">>),
     text |-> JStr(<<"However, the law requires the heir to maintain...">>)]
Citation2 ==
    [source |-> JStr(<<"Law 6.2 (Trials) - Trial by Combat">>),
     text |-> JStr(<<"The accused may demand a trial by combat...">>)]

CitationLists == {<<>>, <<Citation1, Citation2>>}

Responses == {<<"The law requires the heir to maintain their father's surviving widow...">>}

UpstreamDetails == {<<"openai.RateLimitError: quota exceeded">>, <<"Internal Server Error">>}

BackendErrorStatuses == {400, 500, 502}

\* The 200 body of GET /query.
Answer(query, response, citations) ==
    [query |-> JStr(query), response |-> JStr(response), citations |-> JArr(citations)]

LastFetch == backendFetches[Len(backendFetches)]

BackendSettles(r) ==
    /\ routePc = "awaitBackend"
    /\ backendResponse' = r
    /\ routePc' = "backendSettled"
    /\ UNCHANGED <<request, backendFetches, routeResponse>>
    /\ UNCHANGED chatVars

\* 200 with the answer to the query parameter of the request.
BackendAnswers ==
    /\ routePc = "awaitBackend"
    /\ \E query \in {UrlParam(LastFetch.url)[2]},
          response \in Responses, citations \in CitationLists :
           BackendSettles([kind |-> "http",
                           text |-> StringifyObj(Answer(query, response, citations)),
                           status |-> 200])

\* A non-ok status, with the backend's own error detail as its body.
BackendRejects ==
    \E status \in BackendErrorStatuses, detail \in UpstreamDetails :
        BackendSettles([kind |-> "http",
                        text |-> StringifyObj([detail |-> JStr(detail)]),
                        status |-> status])

\* 200 with a body that is no JSON.
BackendGarbles ==
    BackendSettles([kind |-> "http", text |-> <<P("{")>>, status |-> 200])

\* The fetch rejects: the backend is unreachable.
BackendUnreachable ==
    BackendSettles([kind |-> "neterr", text |-> <<>>, status |-> 0])

----------------------------------------------------------------------------
(* A caller of the route other than the chat *)

DirectBodies ==
    {<<P("{")>>, <<N>>, StringifyObj(EmptyObj), StringifyObj([query |-> JNull])}
    \cup {StringifyObj([query |-> JStr(s)]) : s \in Strings(Alphabet, MaxLen)}

DirectPost ==
    /\ routePc = "idle"
    /\ \E text \in DirectBodies : request' = [origin |-> "direct", text |-> text]
    /\ routePc' = "received"
    /\ UNCHANGED <<backendFetches, backendResponse, routeResponse>>
    /\ UNCHANGED chatVars

DirectReturn ==
    /\ routePc = "done"
    /\ request.origin = "direct"
    /\ RouteIdle
    /\ UNCHANGED chatVars

----------------------------------------------------------------------------
(* The chat component *)

\* What the user leaves in the input box.
ChatInputs == {<<>>, <<" ">>, <<" ", "a", " ">>, <<"a", "&">>}

\* onChange of the Input, which is disabled while loading.
Type ==
    /\ ~isLoading
    /\ \E s \in ChatInputs : s # inputValue /\ inputValue' = s
    /\ UNCHANGED <<messages, isLoading, calls, now>>
    /\ UNCHANGED routeVars

\* The clock advances.
Tick ==
    /\ now < MaxTime
    /\ now' = now + 1
    /\ UNCHANGED <<messages, inputValue, isLoading, calls>>
    /\ UNCHANGED routeVars

\* setMessages(prev => [prev[0..], m]), had it put m first
PrependMessage(prev, m) == <<m>> \o prev

\* setMessages(prev => [...prev, m])
AppendMessage(prev, m) == Append(prev, m)

\* The guard of handleSendMessage, had it left the empty input out.
CanSendBlank(input, loading) == ~loading

\* The guard of handleSendMessage: !(!inputValue.trim() || isLoading)
CanSend(input, loading) == Trim(input) # <<>> /\ ~loading

\* handleSendMessage up to its await of fetch('/api/query').
handleSendMessage ==
    IF ~CanSend(inputValue, isLoading)
    THEN UNCHANGED vars
    ELSE /\ Cardinality({i \in 1..Len(messages) : messages[i].type = "user"}) < MaxSends
         /\ messages' = AppendMessage(messages,
                [id |-> now, type |-> "user", content |-> JStr(Trim(inputValue)),
                 citations |-> Undefined])
         /\ inputValue' = <<>>
         /\ isLoading' = TRUE
         /\ calls' = Append(calls,
                [query |-> Trim(inputValue), stage |-> "sent",
                 body |-> StringifyObj([query |-> JStr(Trim(inputValue))])])
         /\ UNCHANGED now
         /\ UNCHANGED routeVars

KeyEvents == [key : {"Enter", "a"}, shiftKey : BOOLEAN]

\* onKeyPress of the Input
handleKeyPress ==
    \E e \in KeyEvents : e.key = "Enter" /\ ~e.shiftKey /\ handleSendMessage

\* onClick of the Button, which is disabled while loading or without input.
ClickSend ==
    /\ ~(isLoading \/ Trim(inputValue) = <<>>)
    /\ handleSendMessage

\* The request of a pending fetch reaches the route.
FetchDeliver ==
    /\ routePc = "idle"
    /\ \E i \in 1..Len(calls) :
        /\ calls[i].stage = "sent"
        /\ request' = [origin |-> "chat", text |-> calls[i].body]
        /\ calls' = [calls EXCEPT ![i].stage = "atRoute"]
    /\ routePc' = "received"
    /\ UNCHANGED <<backendFetches, backendResponse, routeResponse>>
    /\ UNCHANGED <<messages, inputValue, isLoading, now>>

Remove(s, i) == SubSeq(s, 1, i - 1) \o SubSeq(s, i + 1, Len(s))

\* response.ok, had the check been left out
ResponseOkUnchecked(status) == TRUE

\* response.ok
ResponseOk(status) == status >= 200 /\ status <= 299

\* setIsLoading(false), had it ended the try block
LoadingAfterTry(answered) == ~answered

\* finally { setIsLoading(false) }
LoadingAfter(answered) == FALSE

\* handleSendMessage from the settling of its fetch: threw when the fetch
\* rejected, else response is what the route returned.
Settle(i, threw, response) ==
    \E data \in {JsonParse(response.text)} :
    LET answered == ~threw /\ ResponseOk(response.status) /\ data.kind = "object"
        assistantMessage ==
            [id |-> now + 1, type |-> "assistant",
             content |-> Get(data.obj, "response"),
             citations |-> Get(data.obj, "citations")]
    IN /\ messages' = IF answered THEN AppendMessage(messages, assistantMessage)
                      ELSE messages
       /\ isLoading' = LoadingAfter(answered)
       /\ calls' = Remove(calls, i)
       /\ UNCHANGED <<inputValue, now>>

\* The fetch resolves with the route's response.
FetchResolves ==
    /\ routePc = "done"
    /\ request.origin = "chat"
    /\ \E i \in 1..Len(calls) :
        /\ calls[i].stage = "atRoute"
        /\ Settle(i, FALSE, routeResponse)
    /\ RouteIdle

\* The fetch rejects: the request never reached the route.
FetchRejects ==
    /\ \E i \in 1..Len(calls) :
        /\ calls[i].stage = "sent"
        /\ Settle(i, TRUE, NoResponse)
    /\ UNCHANGED routeVars

----------------------------------------------------------------------------
(* Specifications *)

Backend == BackendAnswers \/ BackendRejects \/ BackendGarbles \/ BackendUnreachable

Next ==
    \/ Type
    \/ Tick
    \/ handleKeyPress
    \/ ClickSend
    \/ FetchDeliver
    \/ FetchRejects
    \/ POSTBegin
    \/ BackendAnswers
    \/ BackendRejects
    \/ BackendGarbles
    \/ BackendUnreachable
    \/ POSTFinish
    \/ FetchResolves

Spec == Init /\ [][Next]_vars

\* Every fetch settles: the chat's request reaches the route or its fetch
\* rejects, every await of the route handler and the backend fetch settle,
\* and the chat's fetch resolves with the route's response.
FairSpec ==
    /\ Spec
    /\ WF_vars(FetchDeliver \/ FetchRejects)
    /\ WF_vars(POSTBegin)
    /\ WF_vars(Backend)
    /\ WF_vars(POSTFinish)
    /\ WF_vars(FetchResolves)

NextRoute ==
    \/ DirectPost
    \/ POSTBegin
    \/ BackendAnswers
    \/ BackendRejects
    \/ BackendGarbles
    \/ BackendUnreachable
    \/ POSTFinish
    \/ DirectReturn

SpecRoute == Init /\ [][NextRoute]_vars

----------------------------------------------------------------------------
(* Properties of the proxy route, under SpecRoute *)

IsPrefix(a, b) == Len(a) <= Len(b) /\ SubSeq(b, 1, Len(a)) = a

RequestBody == JsonParse(request.text)
RequestQuery == Get(RequestBody.obj, "query")

\* The request carries a JSON object whose query is absent or the empty string.
QueryMissingOrEmpty ==
    /\ request.origin # "none"
    /\ RequestBody.kind = "object"
    /\ RequestQuery.t = "undefined" \/ RequestQuery = JStr(<<>>)

\* The request carries a JSON object whose query is a non-empty string.
QueryNonEmpty ==
    /\ request.origin # "none"
    /\ RequestBody.kind = "object"
    /\ RequestQuery.t = "str"
    /\ RequestQuery.s # <<>>

\* The text of { error: 'Failed to process query' }
GenericErrorText ==
    <<P("{"), S(<<"error">>), S(<<"Failed to process query">>), P("}")>>

\* The backend call has failed: it rejected, or answered with a non-ok status
\* or with a body that is no JSON.
BackendFailed ==
    \/ backendResponse.kind = "neterr"
    \/ /\ backendResponse.kind = "http"
       /\ \/ backendResponse.status \notin 200..299
          \/ JsonParse(backendResponse.text).kind = "error"

C2_BackendFailureIsGeneric5xx ==
    (routePc = "done" /\ BackendFailed) =>
        /\ routeResponse.status \in 500..599
        /\ routeResponse = [text |-> GenericErrorText, status |-> 500]

C2_Witness ==
    /\ routePc = "done"
    /\ backendResponse.kind = "http"
    /\ backendResponse.status = 502
    /\ routeResponse.status = 500

\* C3: a request whose query is empty or malformed (an unparsable body, a
\* missing or empty query, a query the backend rejects with 400) is answered
\* with status 400.
C3_MalformedQueryIs400 ==
    (/\ routePc = "done"
     /\ \/ RequestBody.kind = "error"
        \/ QueryMissingOrEmpty
        \/ backendResponse.status = 400) =>
        routeResponse.status = 400

\* The one backend request of the query: a GET of /query whose query
\* parameter decodes to the query.
OneBackendRequest ==
    /\ Len(backendFetches) = 1
    /\ backendFetches[1].method = "GET"
    /\ UrlPath(backendFetches[1].url) = <<"/query">>
    /\ UrlParam(backendFetches[1].url) = <<(<<"query">>), RequestQuery.s>>

\* C6 as stated: for every non-empty query string the route has handled,
\* exactly one backend request was issued, a GET of /query whose query
\* parameter decodes to the submitted string.
C6_EveryQueryIsForwardedOnce ==
    (routePc = "done" /\ QueryNonEmpty) => OneBackendRequest

\* C6 as amended: the same, for every non-empty query string without an
\* unpaired surrogate, from the moment the route awaits the backend.
C6_WellFormedQueryIsForwardedOnce ==
    (/\ routePc \in {"awaitBackend", "backendSettled", "done"}
     /\ QueryNonEmpty
     /\ \A i \in 1..Len(RequestQuery.s) : RequestQuery.s[i] # LoneSurrogate) =>
        OneBackendRequest

C6_Witness ==
    /\ routePc = "done"
    /\ RequestQuery = JStr(<<"&", "#">>)
    /\ OneBackendRequest
    /\ routeResponse.status = 200

----------------------------------------------------------------------------
(* Properties of the chat with the route, under Spec and FairSpec *)

\* The backend answered 200 with a JSON body.
BackendSucceeded ==
    /\ backendResponse.kind = "http"
    /\ backendResponse.status = 200
    /\ JsonParse(backendResponse.text).kind = "object"

BackendBody == JsonParse(backendResponse.text).obj

\* This step settles the chat's fetch with the route's response.
Resolving == routePc = "done" /\ request.origin = "chat" /\ routePc' = "idle"

\* This step settles a fetch of the chat.
Settling == Len(calls') < Len(calls)

\* C5: the route's 200 response is the backend's JSON body, and the chat
\* settles a successful request by appending exactly one assistant message
\* whose content is the body's response and whose citations are the body's
\* citations, in the same order.
C5_AnswerPassesThrough ==
    /\ []((routePc = "done" /\ BackendSucceeded) =>
            /\ routeResponse.status = 200
            /\ JsonParse(routeResponse.text) = JsonParse(backendResponse.text))
    /\ [][(Resolving /\ BackendSucceeded) =>
            messages' = Append(messages,
                [id |-> now + 1, type |-> "assistant",
                 content |-> BackendBody["response"],
                 citations |-> BackendBody["citations"]])]_vars

C5_Witness ==
    /\ Len(messages) = 2
    /\ messages[2].type = "assistant"
    /\ messages[2].content = JStr(CHOOSE r \in Responses : TRUE)
    /\ messages[2].citations = JArr(<<Citation1, Citation2>>)
    /\ ~isLoading

\* C4: the route's response is either the backend's body, with status 200,
\* or an object holding only an error, with status 400 or 500; and a fetch
\* of the chat that fails (it rejects, or resolves with a non-ok response)
\* leaves the message list as it was.
C4_FailureIsNeverAPartialAnswer ==
    /\ [](routePc = "done" =>
            \/ /\ routeResponse.status = 200
               /\ BackendSucceeded
               /\ JsonParse(routeResponse.text).obj = BackendBody
            \/ /\ routeResponse.status \in {400, 500}
               /\ DOMAIN JsonParse(routeResponse.text).obj = {"error"})
    /\ [][(Settling /\ ~(Resolving /\ routeResponse.status \in 200..299)) =>
            messages' = messages]_vars

C4_Witness ==
    /\ ~isLoading
    /\ calls = <<>>
    /\ Len(messages) = 1
    /\ messages[1].type = "user"

\* C7: once the fetch settles isLoading returns to false, whether the
\* request succeeded, failed or threw; the step that ends the loading keeps
\* every message recorded before it and leaves no fetch pending, so that the
\* guard of the next send depends on the input alone.
C7_FailureNeverBlocks ==
    /\ isLoading ~> ~isLoading
    /\ [](calls = <<>> => ~isLoading)
    /\ [][(isLoading /\ ~isLoading') =>
            IsPrefix(messages, messages') /\ calls' = <<>>]_vars

\* A query sent after the failure of the one before it.
C7_Witness ==
    /\ Len(messages) = 2
    /\ messages[1].type = "user"
    /\ messages[2].type = "user"
    /\ isLoading
    /\ Len(calls) = 1

\* C8: at most one /api/query request is in flight; and from a state where
\* isLoading is true or the trimmed input is empty no step sends a request,
\* appends a user message or sets isLoading: an activation of
\* handleSendMessage there changes nothing.
C8_SingleFlight ==
    /\ [](Len(calls) <= 1)
    /\ [][(isLoading \/ Trim(inputValue) = <<>>) =>
            /\ Len(calls') <= Len(calls)
            /\ \/ messages' = messages
               \/ /\ Len(messages') = Len(messages) + 1
                  /\ messages'[Len(messages')].type = "assistant"
            /\ ~isLoading => ~isLoading']_vars

\* handleSendMessage can be activated while a request is in flight: the
\* input is blank and isLoading is true.
C8_Witness ==
    /\ isLoading
    /\ Len(calls) = 1
    /\ calls[1].stage = "atRoute"
    /\ Trim(inputValue) = <<>>

\* C9: no step removes, reorders or alters a message; every assistant
\* message is immediately preceded by a user message, so that no user
\* message has two replies; and an assistant message is appended right
\* after the user message holding the query the backend was asked.
C9_AppendOnlyWellOrdered ==
    /\ [][IsPrefix(messages, messages')]_vars
    /\ [](\A i \in 1..Len(messages) :
            messages[i].type = "assistant" =>
                i > 1 /\ messages[i - 1].type = "user")
    /\ [][(Len(messages') > Len(messages)
           /\ messages'[Len(messages')].type = "assistant") =>
            /\ messages # <<>>
            /\ messages[Len(messages)].type = "user"
            /\ Len(backendFetches) = 1
            /\ messages[Len(messages)].content
                 = JStr(UrlParam(backendFetches[1].url)[2])]_vars

\* A failed query, then an answered one.
C9_Witness ==
    /\ Len(messages) = 3
    /\ messages[1].type = "user"
    /\ messages[2].type = "user"
    /\ messages[3].type = "assistant"

\* C10: no two messages of the list share an id.
C10_MessageIdsUnique ==
    \A i, j \in 1..Len(messages) : i # j => messages[i].id # messages[j].id

====
